---------------------------- MODULE Spec2Model ----------------------------
(***************************************************************************)
(* Model of src/bin/server-hybrid.rs: the hybrid (web + gRPC) tower        *)
(* service.  HybridMakeService builds one HybridService per connection     *)
(* from the web-handler factory and a clone of the gRPC handler.           *)
(* HybridService dispatches each request of one connection to the web     *)
(* handler or to the gRPC handler by its content-type header,              *)
(* HybridFuture forwards the poll of the chosen handler's future and       *)
(* re-tags the response body, HybridBody forwards the body's operations.   *)
(* The web handler, the gRPC handler, their futures and their bodies are   *)
(* type parameters of the code: here they are stubs that may answer        *)
(* anything their traits (tower::Service, Future, HttpBody) allow.         *)
(***************************************************************************)
EXTENDS Integers, Sequences, FiniteSets, Bags, TLC

(* Polls of one HybridFuture before it completes. *)
MaxPolls == 2
(* Polls of one HybridFuture after it completed. *)
MaxRepolls == 1
(* Answers in the data script of a wrapped body. *)
MaxChunks == 2
(* Operations applied to one HybridBody. *)
MaxBodyOps == 4
(* Connections the acceptor is called for. *)
MaxConns == 2
(* Readiness checks of one HybridService that are counted. *)
MaxChecks == 4
(* HybridFutures and HybridBodies alive at a time, over all connections. *)
MaxInHand == 2

(***************************************************************************)
(* Values: Option, Poll, Result.  Tagged tuples, the tag first.            *)
(***************************************************************************)
None == <<>>
Some(x) == <<x>>

Pending == <<"Pending">>
Ready(x) == <<"Ready", x>>
Ok(x) == <<"Ok", x>>
Err(e) == <<"Err", e>>
Unit == <<>>
Panic == <<"Panic">>
NoPoll == <<"NoPoll">>

IsReadyOk(p) == Len(p) = 2 /\ p[1] = "Ready" /\ p[2][1] = "Ok"
IsReadyErr(p) == Len(p) = 2 /\ p[1] = "Ready" /\ p[2][1] = "Err"
IsReady(p) == Len(p) = 2 /\ p[1] = "Ready"

(* e.into(): the handler's error becomes a Box<dyn Error + Send + Sync>. *)
IntoBox(e) == <<"Box", e>>

(***************************************************************************)
(* Requests.  A header value is its bytes; a HeaderMap is the list of      *)
(* (name, value) entries in arrival order, names already lower-cased.      *)
(***************************************************************************)
GrpcContentType ==
    <<97, 112, 112, 108, 105, 99, 97, 116, 105, 111, 110, 47, 103, 114, 112, 99>>
GrpcCapitalized ==
    <<65, 112, 112, 108, 105, 99, 97, 116, 105, 111, 110, 47, 71, 114, 112, 99>>
GrpcProto ==
    <<97, 112, 112, 108, 105, 99, 97, 116, 105, 111, 110, 47, 103, 114, 112, 99,
      43, 112, 114, 111, 116, 111>>
TextPlain == <<116, 101, 120, 116, 47, 112, 108, 97, 105, 110>>
Trailers == <<116, 114, 97, 105, 108, 101, 114, 115>>

HeaderValue(bytes) == [inner |-> bytes, is_sensitive |-> FALSE]
AsBytes(v) == v.inner
Header(name, bytes) == <<name, HeaderValue(bytes)>>

(* The content-type entries the requests of the model carry. *)
ContentTypes ==
    { <<>>,
      <<Header("content-type", GrpcContentType)>>,
      <<Header("content-type", GrpcCapitalized)>>,
      <<Header("content-type", GrpcProto)>>,
      <<Header("content-type", TextPlain)>>,
      <<Header("content-type", TextPlain), Header("content-type", GrpcContentType)>>,
      <<Header("content-type", GrpcContentType), Header("content-type", TextPlain)>> }

PlainGets ==
    { [method |-> "GET", uri |-> "/", headers |-> ct, body |-> <<>>] :
        ct \in ContentTypes }
EchoPosts ==
    { [method |-> "POST", uri |-> "/echo.Echo/Echo",
       headers |-> <<Header("te", Trailers)>> \o ct, body |-> <<0, 0, 0, 0, 0>>] :
        ct \in { <<>>,
                 <<Header("content-type", GrpcContentType)>>,
                 <<Header("content-type", TextPlain)>> } }
Requests == PlainGets \cup EchoPosts
NoReq == [method |-> "", uri |-> "", headers |-> <<>>, body |-> <<>>]

(* HeaderMap::get: the first value stored under the name, or None. *)
HeaderGet(headers, name) ==
    LET idx == { i \in 1..Len(headers) : headers[i][1] = name }
    IN  IF idx = {} THEN None
        ELSE Some(headers[CHOOSE i \in idx : \A j \in idx : i <= j][2])

(* Option::map(|x| x.as_bytes()) *)
MapAsBytes(o) == IF o = None THEN None ELSE Some(AsBytes(o[1]))

(* req.headers().get("content-type").map(|x| x.as_bytes()) *)
ContentTypeBytes(req) == MapAsBytes(HeaderGet(req.headers, "content-type"))

(* A prefix test in place of the equality. *)
IsGrpcRequest_Prefix(req) ==
    LET v == ContentTypeBytes(req)
    IN  /\ v # None
        /\ Len(v[1]) >= Len(GrpcContentType)
        /\ SubSeq(v[1], 1, Len(GrpcContentType)) = GrpcContentType

(* The equality made case-insensitive. *)
IsGrpcRequest_AnyCase(req) ==
    LET v == ContentTypeBytes(req)
        lower(b) == IF b >= 65 /\ b <= 90 THEN b + 32 ELSE b
    IN  /\ v # None
        /\ [i \in 1..Len(v[1]) |-> lower(v[1][i])] = GrpcContentType

(* ... == Some(b"application/grpc") *)
IsGrpcRequest(req) == ContentTypeBytes(req) = Some(GrpcContentType)

(***************************************************************************)
(* The handlers (type parameters Web and Grpc).  A handler's poll_ready    *)
(* answers Pending, Ready(Ok(())) or Ready(Err(e)); its call returns a     *)
(* future that holds the request; the future's poll answers Pending,       *)
(* Ready(Ok(response)) or Ready(Err(e)).                                   *)
(***************************************************************************)
WebErrors == { <<"WebError", 1>>, <<"WebError", 2>> }
GrpcErrors == { <<"GrpcError", 1>> }
HandlerErrors(h) == IF h = "web" THEN WebErrors ELSE GrpcErrors

ReadyAnswers(h) ==
    { Pending, Ready(Ok(Unit)) } \cup { Ready(Err(e)) : e \in HandlerErrors(h) }

(* What a poll_ready answer leaves the handler in. *)
StateAfter(answer) ==
    IF answer = Pending THEN "notready"
    ELSE IF IsReadyOk(answer) THEN "ready" ELSE "failed"

WebResponses ==
    { [status |-> 200, headers |-> <<Header("content-type", TextPlain)>>,
       body |-> <<"WebBody", 1>>],
      [status |-> 404, headers |-> <<>>, body |-> <<"WebBody", 2>>] }
GrpcResponses ==
    { [status |-> 200, headers |-> <<Header("content-type", GrpcContentType)>>,
       body |-> <<"GrpcBody", 1>>] }
HandlerResponses(h) == IF h = "web" THEN WebResponses ELSE GrpcResponses

(* self.web.call(req) / self.grpc.call(req): the handler's future. *)
HandlerCall(h, req) == [handler |-> h, req |-> req, done |-> FALSE]
NoFuture == [handler |-> "", req |-> NoReq, done |-> FALSE]

(* What the poll of a handler's future may answer.  A future polled again  *)
(* after it completed may panic, stay pending or answer once more: the     *)
(* Future trait leaves it to the implementation.                           *)
FutureAnswers(f) ==
    { Pending } \cup { Ready(Ok(r)) : r \in HandlerResponses(f.handler) }
        \cup { Ready(Err(e)) : e \in HandlerErrors(f.handler) }
        \cup (IF f.done THEN { Panic } ELSE {})

FutureAfter(f, answer) == [f EXCEPT !.done = f.done \/ IsReady(answer)]

(***************************************************************************)
(* HybridService                                                           *)
(***************************************************************************)

(* The gRPC handler polled first. *)
HybridServicePollReady_GrpcFirst(webAnswer, grpcAnswer) ==
    IF IsReadyOk(grpcAnswer)
    THEN [polled |-> << <<"grpc", grpcAnswer>>, <<"web", webAnswer>> >>,
          result |-> IF IsReadyOk(webAnswer) THEN Ready(Ok(Unit))
                     ELSE IF IsReadyErr(webAnswer)
                          THEN Ready(Err(IntoBox(webAnswer[2][2])))
                          ELSE Pending]
    ELSE [polled |-> << <<"grpc", grpcAnswer>> >>,
          result |-> IF IsReadyErr(grpcAnswer)
                     THEN Ready(Err(IntoBox(grpcAnswer[2][2])))
                     ELSE Pending]

(* The gRPC handler's Pending taken for ready. *)
HybridServicePollReady_GrpcPendingReady(webAnswer, grpcAnswer) ==
    IF IsReadyOk(webAnswer)
    THEN [polled |-> << <<"web", webAnswer>>, <<"grpc", grpcAnswer>> >>,
          result |-> IF IsReadyErr(grpcAnswer)
                     THEN Ready(Err(IntoBox(grpcAnswer[2][2])))
                     ELSE Ready(Ok(Unit))]
    ELSE [polled |-> << <<"web", webAnswer>> >>,
          result |-> IF IsReadyErr(webAnswer)
                     THEN Ready(Err(IntoBox(webAnswer[2][2])))
                     ELSE Pending]

(* The gRPC handler never polled: the web handler's status returned. *)
HybridServicePollReady_WebOnly(webAnswer, grpcAnswer) ==
    [polled |-> << <<"web", webAnswer>> >>,
     result |-> IF IsReadyOk(webAnswer) THEN Ready(Ok(Unit))
                ELSE IF IsReadyErr(webAnswer)
                     THEN Ready(Err(IntoBox(webAnswer[2][2])))
                     ELSE Pending]

(* The web handler asked whether it is ready, then polled. *)
HybridServicePollReady_WebTwice(webAnswer, grpcAnswer) ==
    IF IsReadyOk(webAnswer)
    THEN [polled |-> << <<"web", webAnswer>>, <<"web", webAnswer>>,
                        <<"grpc", grpcAnswer>> >>,
          result |-> IF IsReadyOk(grpcAnswer) THEN Ready(Ok(Unit))
                     ELSE IF IsReadyErr(grpcAnswer)
                          THEN Ready(Err(IntoBox(grpcAnswer[2][2])))
                          ELSE Pending]
    ELSE [polled |-> << <<"web", webAnswer>> >>,
          result |-> IF IsReadyErr(webAnswer)
                     THEN Ready(Err(IntoBox(webAnswer[2][2])))
                     ELSE Pending]

(* HybridService::poll_ready.  webAnswer and grpcAnswer are what the       *)
(* handlers answer if polled; polled lists the polls made, in order.       *)
HybridServicePollReady(webAnswer, grpcAnswer) ==
    IF IsReadyOk(webAnswer)
    THEN [polled |-> << <<"web", webAnswer>>, <<"grpc", grpcAnswer>> >>,
          result |-> IF IsReadyOk(grpcAnswer) THEN Ready(Ok(Unit))
                     ELSE IF IsReadyErr(grpcAnswer)
                          THEN Ready(Err(IntoBox(grpcAnswer[2][2])))
                          ELSE Pending]
    ELSE [polled |-> << <<"web", webAnswer>> >>,
          result |-> IF IsReadyErr(webAnswer)
                     THEN Ready(Err(IntoBox(webAnswer[2][2])))
                     ELSE Pending]

(* The request's path consulted as well as its content-type. *)
HybridServiceCall_ByPath(req) ==
    IF IsGrpcRequest(req) \/ req.uri = "/echo.Echo/Echo"
    THEN [tag |-> "Right", inner |-> HandlerCall("grpc", req), called |-> <<"grpc">>]
    ELSE [tag |-> "Left", inner |-> HandlerCall("web", req), called |-> <<"web">>]

(* The request handed to the web handler, the gRPC handler called too. *)
HybridServiceCall_CallsBoth(req) ==
    IF IsGrpcRequest(req)
    THEN [tag |-> "Right", inner |-> HandlerCall("grpc", req), called |-> <<"grpc">>]
    ELSE [tag |-> "Left", inner |-> HandlerCall("web", req),
          called |-> <<"web", "grpc">>]

(* HybridService::call: the HybridFuture, and the handler calls made. *)
HybridServiceCall(req) ==
    IF IsGrpcRequest(req)
    THEN [tag |-> "Right", inner |-> HandlerCall("grpc", req), called |-> <<"grpc">>]
    ELSE [tag |-> "Left", inner |-> HandlerCall("web", req), called |-> <<"web">>]

(***************************************************************************)
(* HybridFuture                                                            *)
(***************************************************************************)
(* HybridBody::Web(b), HybridBody::Grpc(b) *)
HybridBody(variant, b) == <<variant, b>>

(* res.map(HybridBody::Web), res.map(HybridBody::Grpc): the body wrapped,  *)
(* the parts kept.                                                         *)
ResponseMap(res, variant) == [res EXCEPT !.body = HybridBody(variant, res.body)]

(* A Resolved state added: a completed HybridFuture polls nothing more. *)
HybridFuturePoll_Fused(fut, answer) ==
    IF fut.inner.done
    THEN [polled |-> <<>>, calls |-> <<>>, out |-> Pending]
    ELSE [polled |-> <<fut.inner.handler>>,
          calls |-> <<>>,
          out |-> IF IsReadyOk(answer)
                  THEN Ready(Ok(ResponseMap(answer[2][2],
                           IF fut.tag = "Left" THEN "HybridBody::Web"
                           ELSE "HybridBody::Grpc")))
                  ELSE IF IsReadyErr(answer) THEN Ready(Err(IntoBox(answer[2][2])))
                  ELSE Pending]

(* Both arms wrap the body as HybridBody::Web. *)
HybridFuturePoll_WebVariantOnly(fut, answer) ==
    [polled |-> <<fut.inner.handler>>,
     calls |-> <<>>,
     out |-> IF IsReadyOk(answer)
             THEN Ready(Ok(ResponseMap(answer[2][2], "HybridBody::Web")))
             ELSE IF IsReadyErr(answer) THEN Ready(Err(IntoBox(answer[2][2])))
             ELSE Pending]

(* A failed request handed to its handler again. *)
HybridFuturePoll_RetryOnErr(fut, answer) ==
    [polled |-> <<fut.inner.handler>>,
     calls |-> IF IsReadyErr(answer) THEN <<fut.inner.handler>> ELSE <<>>,
     out |-> IF IsReadyOk(answer)
             THEN Ready(Ok(ResponseMap(answer[2][2],
                      IF fut.tag = "Left" THEN "HybridBody::Web"
                      ELSE "HybridBody::Grpc")))
             ELSE Pending]

(* A pending request handed to its handler once more. *)
HybridFuturePoll_CallsAgain(fut, answer) ==
    [polled |-> <<fut.inner.handler>>,
     calls |-> IF answer = Pending THEN <<fut.inner.handler>> ELSE <<>>,
     out |-> IF IsReadyOk(answer)
             THEN Ready(Ok(ResponseMap(answer[2][2],
                      IF fut.tag = "Left" THEN "HybridBody::Web"
                      ELSE "HybridBody::Grpc")))
             ELSE IF IsReadyErr(answer) THEN Ready(Err(IntoBox(answer[2][2])))
             ELSE Pending]

(* HybridFuture::poll, given the answer of the future it polls: the        *)
(* output, the handler futures polled and the handler calls made (none).   *)
HybridFuturePoll(fut, answer) ==
    IF fut.tag = "Left"
    THEN [polled |-> <<fut.inner.handler>>,
          calls |-> <<>>,
          out |-> IF IsReadyOk(answer)
                  THEN Ready(Ok(ResponseMap(answer[2][2], "HybridBody::Web")))
                  ELSE IF IsReadyErr(answer) THEN Ready(Err(IntoBox(answer[2][2])))
                  ELSE Pending]
    ELSE [polled |-> <<fut.inner.handler>>,
          calls |-> <<>>,
          out |-> IF IsReadyOk(answer)
                  THEN Ready(Ok(ResponseMap(answer[2][2], "HybridBody::Grpc")))
                  ELSE IF IsReadyErr(answer) THEN Ready(Err(IntoBox(answer[2][2])))
                  ELSE Pending]

(***************************************************************************)
(* HybridBody.  The wrapped body (type parameter WebBody or GrpcBody) is a *)
(* stub that plays a script: data holds the answers poll_data is still to  *)
(* give, trailers those of poll_trailers, and exact tells whether its      *)
(* is_end_stream reports the end (the trait's default never does).         *)
(***************************************************************************)
Chunk == <<104, 105>>
BodyError == <<"BodyError", 1>>
TrailerError == <<"BodyError", 2>>
TrailerMap == <<Header("grpc-status", <<48>>)>>

DataAnswers == { Pending, Ready(Some(Ok(Chunk))), Ready(Some(Err(BodyError))) }
TrailerScripts ==
    { <<>>,
      <<Ready(Ok(Some(TrailerMap)))>>,
      <<Pending, Ready(Ok(Some(TrailerMap)))>>,
      <<Ready(Err(BodyError))>>,
      <<Ready(Err(TrailerError))>> }

RECURSIVE SeqsUpTo(_, _)
SeqsUpTo(S, n) ==
    IF n = 0 THEN { <<>> }
    ELSE LET shorter == SeqsUpTo(S, n - 1)
         IN  shorter \cup { Append(q, x) : q \in shorter, x \in S }

InnerBodies ==
    [data : SeqsUpTo(DataAnswers, MaxChunks), trailers : TrailerScripts,
     exact : BOOLEAN]

InnerIsEndStream(b) == b.exact /\ b.data = <<>> /\ b.trailers = <<>>

InnerPollData(b) ==
    IF b.data = <<>> THEN [out |-> Ready(None), body |-> b]
    ELSE [out |-> Head(b.data), body |-> [b EXCEPT !.data = Tail(b.data)]]

InnerPollTrailers(b) ==
    IF b.trailers = <<>> THEN [out |-> Ready(Ok(None)), body |-> b]
    ELSE [out |-> Head(b.trailers), body |-> [b EXCEPT !.trailers = Tail(b.trailers)]]

(* HybridError::Web(e), HybridError::Grpc(e) *)
HybridError(variant, e) == <<variant, e>>

(* The wrapped body's error (its Display and its Debug) written to the     *)
(* formatter f: the text f holds afterwards.                               *)
InnerErrorDisplay(e, f) == f \o <<"body error", e[2]>>
InnerErrorDebug(e, f) == f \o <<e[1], "(", e[2], ")">>

(* The variant named in front of the wrapped error's text. *)
HybridErrorDisplay_Prefixed(he, f) ==
    IF he[1] = "HybridError::Web"
    THEN InnerErrorDisplay(he[2], f \o <<"web:">>)
    ELSE InnerErrorDisplay(he[2], f \o <<"grpc:">>)

(* impl Display for HybridError *)
HybridErrorDisplay(he, f) ==
    IF he[1] = "HybridError::Web" THEN InnerErrorDisplay(he[2], f)
    ELSE InnerErrorDisplay(he[2], f)

(* impl Debug for HybridError *)
HybridErrorDebug(he, f) ==
    IF he[1] = "HybridError::Web" THEN InnerErrorDebug(he[2], f)
    ELSE InnerErrorDebug(he[2], f)

(* Poll<Option<Result<T, E>>>::map_err *)
PollOptionMapErr(p, variant) ==
    IF Len(p) = 2 /\ p[2] # None /\ p[2][1][1] = "Err"
    THEN Ready(Some(Err(HybridError(variant, p[2][1][2]))))
    ELSE p

(* Poll<Result<T, E>>::map_err *)
PollResultMapErr(p, variant) ==
    IF IsReadyErr(p) THEN Ready(Err(HybridError(variant, p[2][2]))) ELSE p

(* The trait's default is_end_stream, were HybridBody not to forward it. *)
HybridBodyIsEndStream_Default(hb) == FALSE

(* HybridBody::is_end_stream *)
HybridBodyIsEndStream(hb) ==
    IF hb[1] = "HybridBody::Web" THEN InnerIsEndStream(hb[2])
    ELSE InnerIsEndStream(hb[2])

(* HybridBody::poll_data: the answer, and the body afterwards. *)
HybridBodyPollData(hb) ==
    IF hb[1] = "HybridBody::Web"
    THEN LET r == InnerPollData(hb[2])
         IN  [out |-> PollOptionMapErr(r.out, "HybridError::Web"),
              body |-> <<hb[1], r.body>>]
    ELSE LET r == InnerPollData(hb[2])
         IN  [out |-> PollOptionMapErr(r.out, "HybridError::Grpc"),
              body |-> <<hb[1], r.body>>]

(* HybridBody::poll_trailers: the answer, and the body afterwards. *)
HybridBodyPollTrailers(hb) ==
    IF hb[1] = "HybridBody::Web"
    THEN LET r == InnerPollTrailers(hb[2])
         IN  [out |-> PollResultMapErr(r.out, "HybridError::Web"),
              body |-> <<hb[1], r.body>>]
    ELSE LET r == InnerPollTrailers(hb[2])
         IN  [out |-> PollResultMapErr(r.out, "HybridError::Grpc"),
              body |-> <<hb[1], r.body>>]

(***************************************************************************)
(* HybridMakeService and HybridMakeServiceFuture.  The web-handler factory *)
(* (type parameter MakeWeb), the future it returns and the gRPC handler's  *)
(* clone are stubs.  A connection is named by its conn_info.               *)
(***************************************************************************)
Conns == 1..MaxConns

MakeErrors == { <<"MakeError", 1>>, <<"MakeError", 2>> }
MakeReadyAnswers ==
    { Pending, Ready(Ok(Unit)) } \cup { Ready(Err(e)) : e \in MakeErrors }

(* The gRPC handler main constructs: handler names the handler a handle    *)
(* refers to, cloned tells the handles clone() made from the original.     *)
GrpcService == [handler |-> 1, cloned |-> FALSE]
NoGrpc == [handler |-> 0, cloned |-> FALSE]

(* self.grpc.clone(): one more handle on the same handler. *)
GrpcClone(g) == [g EXCEPT !.cloned = TRUE]

(* The web handler the factory makes for one connection. *)
WebInstance(conn_info) == <<"Web", conn_info>>

(* self.make_web.call(conn_info): the factory's future. *)
MakeWebCall(conn_info) == [conn_info |-> conn_info, done |-> FALSE]
NoWebFuture == [conn_info |-> 0, done |-> FALSE]

(* What the poll of the factory's future may answer; polled again after it *)
(* completed it may panic, stay pending or answer once more.               *)
WebFutureAnswers(wf) ==
    { Pending, Ready(Ok(WebInstance(wf.conn_info))) }
        \cup { Ready(Err(e)) : e \in MakeErrors }
        \cup (IF wf.done THEN { Panic } ELSE {})

WebFutureAfter(wf, answer) == [wf EXCEPT !.done = wf.done \/ IsReady(answer)]

(* fn hybrid(make_web, grpc) *)
hybrid(make_web, grpc) == [make_web |-> make_web, grpc |-> grpc]

(* The gRPC handler's readiness asked for as well. *)
HybridMakeServicePollReady_GrpcToo(factoryAnswer) ==
    [polled |-> << <<"make_web", factoryAnswer>>, <<"grpc", Ready(Ok(Unit))>> >>,
     result |-> factoryAnswer]

(* HybridMakeService::poll_ready, given the factory's answer: the handlers *)
(* polled and the result.                                                  *)
HybridMakeServicePollReady(factoryAnswer) ==
    [polled |-> << <<"make_web", factoryAnswer>> >>,
     result |-> factoryAnswer]

(* A gRPC handler constructed anew for the connection. *)
HybridMakeServiceCall_FreshGrpc(ms, conn_info) ==
    [fut |-> [web_future |-> MakeWebCall(conn_info),
              grpc |-> Some([handler |-> ms.grpc.handler + conn_info,
                             cloned |-> FALSE])],
     made |-> <<conn_info>>]

(* Every connection given the web handler of connection 1. *)
HybridMakeServiceCall_SharedWeb(ms, conn_info) ==
    [fut |-> [web_future |-> MakeWebCall(1),
              grpc |-> Some(GrpcClone(ms.grpc))],
     made |-> <<1>>]

(* HybridMakeService::call: the HybridMakeServiceFuture, and the factory   *)
(* calls made.                                                             *)
HybridMakeServiceCall(ms, conn_info) ==
    [fut |-> [web_future |-> MakeWebCall(conn_info),
              grpc |-> Some(GrpcClone(ms.grpc))],
     made |-> <<conn_info>>]

(* HybridService { web, grpc } *)
HybridService(web, grpc) == [web |-> web, grpc |-> grpc]
NoService == HybridService(WebInstance(0), NoGrpc)

(* .expect("Cannot poll twice!") on None *)
CannotPollTwice == <<"Panic", "Cannot poll twice!">>

(* The factory's error boxed on its way out. *)
HybridMakeServiceFuturePoll_ErrBoxed(fut, answer) ==
    IF answer = Pending THEN [out |-> Pending, grpc |-> fut.grpc]
    ELSE IF IsReadyErr(answer)
    THEN [out |-> Ready(Err(IntoBox(answer[2][2]))), grpc |-> fut.grpc]
    ELSE IF IsReadyOk(answer)
    THEN IF fut.grpc = None
         THEN [out |-> CannotPollTwice, grpc |-> None]
         ELSE [out |-> Ready(Ok(HybridService(answer[2][2], fut.grpc[1]))),
               grpc |-> None]
    ELSE [out |-> answer, grpc |-> fut.grpc]

(* The handle taken before the factory's future is polled. *)
HybridMakeServiceFuturePoll_TakeEarly(fut, answer) ==
    IF answer = Pending THEN [out |-> Pending, grpc |-> None]
    ELSE IF IsReadyErr(answer)
    THEN [out |-> Ready(Err(answer[2][2])), grpc |-> None]
    ELSE IF IsReadyOk(answer)
    THEN IF fut.grpc = None
         THEN [out |-> CannotPollTwice, grpc |-> None]
         ELSE [out |-> Ready(Ok(HybridService(answer[2][2], fut.grpc[1]))),
               grpc |-> None]
    ELSE [out |-> answer, grpc |-> None]

(* HybridMakeServiceFuture::poll, given the answer of web_future: the      *)
(* output, and the grpc field afterwards.  A panic of web_future unwinds   *)
(* through it.                                                             *)
HybridMakeServiceFuturePoll(fut, answer) ==
    IF answer = Pending THEN [out |-> Pending, grpc |-> fut.grpc]
    ELSE IF IsReadyErr(answer)
    THEN [out |-> Ready(Err(answer[2][2])), grpc |-> fut.grpc]
    ELSE IF IsReadyOk(answer)
    THEN IF fut.grpc = None
         THEN [out |-> CannotPollTwice, grpc |-> None]
         ELSE [out |-> Ready(Ok(HybridService(answer[2][2], fut.grpc[1]))),
               grpc |-> None]
    ELSE [out |-> answer, grpc |-> fut.grpc]

(***************************************************************************)
(* One connection.  The transport polls the Dispatcher's readiness, hands  *)
(* it a request once it is ready, and polls the HybridFuture the call      *)
(* returned until it completes; then the next request may follow.  cur is  *)
(* the request in hand, prev the dispatch of the request before it.        *)
(***************************************************************************)
VARIABLES
    webSt,      \* the web handler: "notready", "ready" or "failed"
    grpcSt,     \* the gRPC handler, likewise
    check,      \* the last readiness check: the polls made and the result
    svcReady,   \* the last check returned Ready(Ok) and no call followed it
    conn,       \* "open"; "closed" after a readiness error; "panicked"
    prev,       \* the request dispatched before cur, and where it went
    cur,        \* the request in hand and its HybridFuture
    hb,         \* a HybridBody being streamed
    direct,     \* the body hb wraps, as it is when driven directly
    through,    \* the operations applied to hb and their answers
    directly,   \* the same operations applied to direct and their answers
    rendered,   \* the last body error as the HybridBody's caller and the
                \* wrapped body's caller print it
    acceptor,   \* the HybridMakeService and its last readiness check
    conns,      \* per connection: its build, its HybridService, its last request
    checks      \* the readiness checks counted: how many, the handler polls
                \* they made, the check before the last

connVars == <<webSt, grpcSt, check, svcReady, conn, prev, cur>>
bodyVars == <<hb, direct, through, directly>>
acceptVars == <<acceptor, conns>>
vars == <<webSt, grpcSt, check, svcReady, conn, prev, cur,
          hb, direct, through, directly, rendered, acceptor, conns, checks>>

NoErrors == [union |-> <<>>, inner |-> <<>>]

NoBody == [data |-> <<>>, trailers |-> <<>>, exact |-> FALSE]

NoDispatch == [req |-> NoReq, tag |-> "", called |-> <<>>]

FreeSlot ==
    [st |-> "free", req |-> NoReq, tag |-> "", inner |-> NoFuture,
     called |-> <<>>, readyAtCall |-> <<>>, checkAtCall |-> NoPoll,
     polls |-> 0, repolls |-> 0, polled |-> <<>>, answer |-> NoPoll,
     out |-> NoPoll, first |-> NoPoll, readies |-> 0]

(***************************************************************************)
(* Accepting connections.  The transport checks the acceptor's readiness,  *)
(* calls it with the conn_info of a new connection, polls the              *)
(* HybridMakeServiceFuture in that connection's task until it completes    *)
(* and hands the connection's requests to the HybridService it returned.   *)
(***************************************************************************)
WebGet ==
    [method |-> "GET", uri |-> "/",
     headers |-> <<Header("content-type", TextPlain)>>, body |-> <<>>]
GrpcPost ==
    [method |-> "POST", uri |-> "/echo.Echo/Echo",
     headers |-> <<Header("te", Trailers), Header("content-type", GrpcContentType)>>,
     body |-> <<0, 0, 0, 0, 0>>]
ConnRequests == { WebGet, GrpcPost }

NoDelivery == [req |-> NoReq, tag |-> "", target |-> <<"", 0>>]

NoConn ==
    [st |-> "none",
     fut |-> [web_future |-> NoWebFuture, grpc |-> None],
     made |-> <<>>, polls |-> 0, repolls |-> 0,
     answer |-> NoPoll, before |-> None, out |-> NoPoll,
     built |-> 0, svc |-> NoService, last |-> NoDelivery,
     pending |-> EmptyBag, bodies |-> EmptyBag]

(* A failed build takes every other connection down with it. *)
ConnsAfter_FailureResets(cs, c, k) ==
    [d \in Conns |-> IF d = c THEN k
                     ELSE IF k.st = "failed" THEN NoConn ELSE cs[d]]

(* A future, a HybridService and the futures it returns are owned by the   *)
(* task of their connection: an operation on them changes nothing else.    *)
ConnsAfter(cs, c, k) == [cs EXCEPT ![c] = k]

InitAccept ==
    /\ acceptor = [ms |-> hybrid([st |-> "notready"], GrpcService),
                   check |-> [polled |-> <<>>, result |-> NoPoll],
                   answer |-> NoPoll]
    /\ conns = [c \in Conns |-> NoConn]


(***************************************************************************)
(* The initial state.                                                      *)
(***************************************************************************)
NoChecks ==
    [n |-> 0, web |-> 0, grpc |-> 0, before |-> [polled |-> <<>>, result |-> NoPoll]]

InitConn ==
    /\ webSt = "notready"
    /\ grpcSt = "notready"
    /\ check = [polled |-> <<>>, result |-> NoPoll]
    /\ svcReady = FALSE
    /\ conn = "open"
    /\ prev = NoDispatch
    /\ cur = FreeSlot

Init ==
    /\ InitConn
    /\ hb = <<"", NoBody>>
    /\ direct = NoBody
    /\ through = <<>>
    /\ directly = <<>>
    /\ rendered = NoErrors
    /\ InitAccept
    /\ checks = NoChecks

(* One readiness check of the Dispatcher, the web handler answering wa and *)
(* the gRPC handler, if polled, ga.                                        *)
CheckStep(wa, ga) ==
    LET r == HybridServicePollReady(wa, ga)
        answerOf(h) ==
            { r.polled[i][2] : i \in { j \in 1..Len(r.polled) : r.polled[j][1] = h } }
        after(h, st) ==
            IF answerOf(h) = {} THEN st
            ELSE StateAfter(CHOOSE a \in answerOf(h) : TRUE)
    IN  /\ check' = r
        /\ webSt' = after("web", webSt)
        /\ grpcSt' = after("grpc", grpcSt)
        /\ svcReady' = IsReadyOk(r.result)
        /\ conn' = IF IsReadyErr(r.result) THEN "closed" ELSE conn
        /\ UNCHANGED <<prev, cur>>
        /\ UNCHANGED <<bodyVars, rendered, acceptVars>>

(* The transport checks the Dispatcher's readiness. *)
PollReady ==
    /\ conn = "open"
    /\ \E wa \in ReadyAnswers("web"), ga \in ReadyAnswers("grpc") : CheckStep(wa, ga)
    /\ UNCHANGED checks

(* The polls of handler h a readiness check made. *)
PollsOf(r, h) == Cardinality({ i \in 1..Len(r.polled) : r.polled[i][1] = h })

(* The same check, counted. *)
PollReadyCounted ==
    /\ conn = "open"
    /\ checks.n < MaxChecks
    /\ \E wa \in ReadyAnswers("web"), ga \in ReadyAnswers("grpc") : CheckStep(wa, ga)
    /\ checks' = [n |-> checks.n + 1,
                  web |-> checks.web + PollsOf(check', "web"),
                  grpc |-> checks.grpc + PollsOf(check', "grpc"),
                  before |-> check]

(* The transport, told the Dispatcher is ready, hands it the next request. *)
Call ==
    /\ conn = "open"
    /\ svcReady
    /\ cur.st \in {"free", "done"}
    /\ \E req \in Requests :
         LET c == HybridServiceCall(req)
             uses(h) == \E k \in 1..Len(c.called) : c.called[k] = h
         IN  /\ cur' = [FreeSlot EXCEPT !.st = "inflight", !.req = req,
                                        !.tag = c.tag, !.inner = c.inner,
                                        !.called = c.called,
                                        !.readyAtCall = <<webSt, grpcSt>>,
                                        !.checkAtCall = check.result]
             /\ webSt' = IF uses("web") THEN "notready" ELSE webSt
             /\ grpcSt' = IF uses("grpc") THEN "notready" ELSE grpcSt
    /\ prev' = IF cur.st = "free" THEN prev
               ELSE [req |-> cur.req, tag |-> cur.tag, called |-> cur.called]
    /\ svcReady' = FALSE
    /\ UNCHANGED <<check, conn>>
    /\ UNCHANGED <<bodyVars, rendered, acceptVars, checks>>

(* One poll of cur's HybridFuture, the future it polls answering a.  A     *)
(* panic of that future unwinds through HybridFuture::poll into the        *)
(* connection's task.                                                      *)
PollStep(a, again) ==
    LET p == HybridFuturePoll([tag |-> cur.tag, inner |-> cur.inner], a)
        counted == [cur EXCEPT !.polls = cur.polls + (IF again THEN 0 ELSE 1),
                               !.repolls = cur.repolls + (IF again THEN 1 ELSE 0),
                               !.polled = p.polled,
                               !.called = cur.called \o p.calls,
                               !.answer = IF p.polled = <<>> THEN NoPoll ELSE a]
    IN  /\ cur' = IF a = Panic
                  THEN [counted EXCEPT !.st = "panicked", !.out = Panic]
                  ELSE [counted EXCEPT
                          !.st = IF IsReady(p.out) THEN "done" ELSE cur.st,
                          !.inner = IF p.polled = <<>> THEN cur.inner
                                    ELSE FutureAfter(cur.inner, a),
                          !.out = p.out,
                          !.first = IF cur.first = NoPoll /\ IsReady(p.out)
                                    THEN p.out ELSE cur.first,
                          !.readies = cur.readies + (IF IsReady(p.out) THEN 1 ELSE 0)]
        /\ conn' = IF a = Panic THEN "panicked" ELSE conn
        /\ UNCHANGED <<webSt, grpcSt, check, svcReady, prev>>
        /\ UNCHANGED <<bodyVars, rendered, acceptVars, checks>>

(* The transport polls the HybridFuture in hand. *)
PollFuture ==
    /\ conn # "panicked"
    /\ cur.st = "inflight"
    /\ cur.polls < MaxPolls
    /\ \E a \in FutureAnswers(cur.inner) : PollStep(a, FALSE)

(* A caller polls a HybridFuture once more after it completed. *)
PollAfterCompletion ==
    /\ conn # "panicked"
    /\ cur.st = "done"
    /\ cur.repolls < MaxRepolls
    /\ \E a \in FutureAnswers(cur.inner) : PollStep(a, TRUE)

Next == PollReady \/ Call \/ PollFuture

Spec == Init /\ [][Next]_vars

(* The readiness checks of one HybridService counted, a request handed    *)
(* over when a check reports ready.                                        *)
NextChecks == PollReadyCounted \/ Call

SpecChecks == Init /\ [][NextChecks]_vars

NextRepoll == PollReady \/ Call \/ PollFuture \/ PollAfterCompletion

SpecRepoll == Init /\ [][NextRepoll]_vars

(***************************************************************************)
(* Streaming one HybridBody: any wrapped body under either variant, each   *)
(* operation applied to the HybridBody and to the wrapped body itself.     *)
(***************************************************************************)
InitBody ==
    /\ InitConn
    /\ \E variant \in {"HybridBody::Web", "HybridBody::Grpc"}, b \in InnerBodies :
         /\ hb = HybridBody(variant, b)
         /\ direct = b
    /\ through = <<>>
    /\ directly = <<>>
    /\ rendered = NoErrors
    /\ InitAccept
    /\ checks = NoChecks

(* The error an answer of poll_data or poll_trailers carries, if any. *)
ErrorIn(op, out) ==
    IF op = "poll_data"
    THEN IF Len(out) = 2 /\ out[2] # None /\ out[2][1][1] = "Err"
         THEN Some(out[2][1][2]) ELSE None
    ELSE IF op = "poll_trailers" /\ IsReadyErr(out) THEN Some(out[2][2])
    ELSE None

(* One operation applied to the HybridBody (answer r) and to the wrapped   *)
(* body itself (answer d); an error answered is printed by both callers    *)
(* with {} and with {:?}.                                                  *)
Streamed(op, r, d) ==
    /\ hb' = r.body
    /\ direct' = d.body
    /\ through' = Append(through, <<op, r.out>>)
    /\ directly' = Append(directly, <<op, d.out>>)
    /\ rendered' =
           [union |-> IF ErrorIn(op, r.out) = None THEN rendered.union
                      ELSE <<HybridErrorDisplay(ErrorIn(op, r.out)[1], <<>>),
                             HybridErrorDebug(ErrorIn(op, r.out)[1], <<>>)>>,
            inner |-> IF ErrorIn(op, d.out) = None THEN rendered.inner
                      ELSE <<InnerErrorDisplay(ErrorIn(op, d.out)[1], <<>>),
                             InnerErrorDebug(ErrorIn(op, d.out)[1], <<>>)>>]
    /\ UNCHANGED <<connVars, acceptVars, checks>>

IsEndStream ==
    /\ Len(through) < MaxBodyOps
    /\ Streamed("is_end_stream",
                [out |-> HybridBodyIsEndStream(hb), body |-> hb],
                [out |-> InnerIsEndStream(direct), body |-> direct])

PollData ==
    /\ Len(through) < MaxBodyOps
    /\ Streamed("poll_data", HybridBodyPollData(hb), InnerPollData(direct))

PollTrailers ==
    /\ Len(through) < MaxBodyOps
    /\ Streamed("poll_trailers", HybridBodyPollTrailers(hb), InnerPollTrailers(direct))

NextBody == IsEndStream \/ PollData \/ PollTrailers

SpecBody == InitBody /\ [][NextBody]_vars

(***************************************************************************)
(* The acceptor's operations.                                              *)
(***************************************************************************)
(* The transport checks the acceptor's readiness. *)
MakePollReady ==
    /\ acceptor.ms.make_web.st # "failed"
    /\ \E a \in MakeReadyAnswers :
         acceptor' = [ms |-> [acceptor.ms EXCEPT !.make_web.st = StateAfter(a)],
                      check |-> HybridMakeServicePollReady(a),
                      answer |-> a]
    /\ UNCHANGED conns
    /\ UNCHANGED <<connVars, bodyVars, rendered, checks>>

(* A new connection c: the transport calls the acceptor. *)
MakeCall(c) ==
    /\ acceptor.ms.make_web.st = "ready"
    /\ conns[c].st = "none"
    /\ LET r == HybridMakeServiceCall(acceptor.ms, c)
       IN  conns' = ConnsAfter(conns, c,
                       [NoConn EXCEPT !.st = "building", !.fut = r.fut,
                                      !.made = r.made])
    /\ acceptor' = [acceptor EXCEPT !.ms.make_web.st = "notready"]
    /\ UNCHANGED <<connVars, bodyVars, rendered, checks>>

(* One poll of connection c's HybridMakeServiceFuture, web_future          *)
(* answering a.  A panic ends the connection's task.                       *)
BuildStep(c, a, again) ==
    LET k == conns[c]
        p == HybridMakeServiceFuturePoll(k.fut, a)
        panics == p.out # Pending /\ ~IsReady(p.out)
    IN  /\ conns' = ConnsAfter(conns, c,
              [k EXCEPT
                 !.polls = k.polls + (IF again THEN 0 ELSE 1),
                 !.repolls = k.repolls + (IF again THEN 1 ELSE 0),
                 !.answer = a,
                 !.before = k.fut.grpc,
                 !.out = p.out,
                 !.fut = [web_future |-> WebFutureAfter(k.fut.web_future, a),
                          grpc |-> p.grpc],
                 !.st = IF panics THEN "panicked"
                        ELSE IF IsReadyOk(p.out) THEN "built"
                        ELSE IF IsReadyErr(p.out) /\ ~again THEN "failed"
                        ELSE k.st,
                 !.built = k.built + (IF IsReadyOk(p.out) THEN 1 ELSE 0),
                 !.svc = IF IsReadyOk(p.out) THEN p.out[2][2] ELSE k.svc])
        /\ UNCHANGED acceptor
        /\ UNCHANGED <<connVars, bodyVars, rendered, checks>>

(* The connection's task polls its HybridMakeServiceFuture. *)
PollBuild(c) ==
    /\ conns[c].st = "building"
    /\ conns[c].polls < MaxPolls
    /\ \E a \in WebFutureAnswers(conns[c].fut.web_future) : BuildStep(c, a, FALSE)

(* A caller polls a HybridMakeServiceFuture once more after it completed. *)
PollBuildAgain(c) ==
    /\ conns[c].st \in {"built", "failed"}
    /\ conns[c].repolls < MaxRepolls
    /\ \E a \in WebFutureAnswers(conns[c].fut.web_future) : BuildStep(c, a, TRUE)

(* The HybridFutures and HybridBodies the tasks of connections 1..n hold. *)
RECURSIVE InHand(_, _)
InHand(cs, n) ==
    IF n = 0 THEN 0
    ELSE BagCardinality(cs[n].pending) + BagCardinality(cs[n].bodies)
             + InHand(cs, n - 1)

(* A request of connection c handed to the connection's HybridService:     *)
(* the handler HybridService::call hands it to, and the HybridFuture it    *)
(* returns, which the connection's task holds from then on beside what it  *)
(* holds already (of: the HybridService that made it).                     *)
Dispatch(c) ==
    /\ conns[c].st = "built"
    /\ InHand(conns, MaxConns) < MaxInHand
    /\ \E req \in ConnRequests :
         LET d == HybridServiceCall(req)
             svc == conns[c].svc
         IN  conns' = ConnsAfter(conns, c,
                 [conns[c] EXCEPT
                    !.last = [req |-> req, tag |-> d.tag,
                              target |-> IF d.called = <<"grpc">>
                                         THEN <<"Grpc", svc.grpc.handler>>
                                         ELSE svc.web],
                    !.pending = conns[c].pending (+)
                        SetToBag({[tag |-> d.tag, inner |-> d.inner, of |-> svc]})])
    /\ UNCHANGED acceptor
    /\ UNCHANGED <<connVars, bodyVars, rendered, checks>>

(* The task of connection c polls one of the HybridFutures it holds: when  *)
(* it completes the future is dropped and, on success, the task holds the  *)
(* response's HybridBody.                                                  *)
PollResponse(c) ==
    /\ conns[c].st = "built"
    /\ \E f \in BagToSet(conns[c].pending) :
         \E a \in FutureAnswers(f.inner) :
             LET p == HybridFuturePoll([tag |-> f.tag, inner |-> f.inner], a)
                 others == conns[c].pending (-) SetToBag({f})
             IN  conns' = ConnsAfter(conns, c,
                     [conns[c] EXCEPT
                        !.pending =
                            IF IsReady(p.out) THEN others
                            ELSE others (+)
                                 SetToBag({[f EXCEPT !.inner = FutureAfter(f.inner, a)]}),
                        !.bodies =
                            IF IsReadyOk(p.out)
                            THEN conns[c].bodies (+)
                                 SetToBag({[body |-> p.out[2][2].body, of |-> f.of]})
                            ELSE conns[c].bodies])
    /\ UNCHANGED acceptor
    /\ UNCHANGED <<connVars, bodyVars, rendered, checks>>

(* Connections accepted and built, and their requests handed to the        *)
(* HybridService of the connection.                                        *)
NextAccept ==
    \/ MakePollReady
    \/ \E c \in Conns : MakeCall(c) \/ PollBuild(c) \/ Dispatch(c)

SpecAccept == Init /\ [][NextAccept]_vars

(* The same, with the HybridFutures of the requests polled to their        *)
(* responses.                                                              *)
NextServe ==
    \/ NextAccept
    \/ \E c \in Conns : PollResponse(c)

SpecServe == Init /\ [][NextServe]_vars

(* One connection whose HybridMakeServiceFuture is polled beyond its       *)
(* completion.                                                             *)
NextAcceptRepoll ==
    \/ MakePollReady
    \/ MakeCall(1) \/ PollBuild(1) \/ PollBuildAgain(1) \/ Dispatch(1)
    \/ PollResponse(1)

SpecAcceptRepoll == Init /\ [][NextAcceptRepoll]_vars

(***************************************************************************)
(* Routing                                                                 *)
(***************************************************************************)
RoutedTo(d, h) ==
    /\ d.tag = (IF h = "grpc" THEN "Right" ELSE "Left")
    /\ d.called = <<h>>

(* The request's content-type header (the value HeaderMap::get returns:    *)
(* the first one stored) is present and is exactly these bytes.            *)
HasContentType(req, bytes) ==
    \E i \in 1..Len(req.headers) :
        /\ req.headers[i][1] = "content-type"
        /\ \A j \in 1..(i - 1) : req.headers[j][1] # "content-type"
        /\ req.headers[i][2].inner = bytes

(* C1: a request is routed to the gRPC handler if and only if its          *)
(* content-type header is byte for byte application/grpc; every other      *)
(* request (no header, another case, a longer value, another value) is     *)
(* routed to the web handler.                                              *)
C1_RoutingByExactContentType ==
    cur.st # "free" =>
        /\ HasContentType(cur.req, GrpcContentType) => RoutedTo(cur, "grpc")
        /\ ~HasContentType(cur.req, GrpcContentType) => RoutedTo(cur, "web")
        /\ cur.inner.handler = cur.called[1]
        /\ cur.inner.req = cur.req

(* An application/grpc request went to the gRPC handler after an           *)
(* application/grpc+proto request went to the web handler.                 *)
C1_Witness ==
    /\ cur.st # "free"
    /\ HasContentType(cur.req, GrpcContentType)
    /\ RoutedTo(cur, "grpc")
    /\ HasContentType(prev.req, GrpcProto)
    /\ RoutedTo(prev, "web")

(* C2: two requests of the connection with the same content-type header    *)
(* (or both without one) are routed to the same handler, whatever their    *)
(* method, path, other headers and body, and whatever was dispatched       *)
(* before.                                                                 *)
C2_RoutingDependsOnContentTypeOnly ==
    (/\ cur.st # "free"
     /\ prev # NoDispatch
     /\ ContentTypeBytes(prev.req) = ContentTypeBytes(cur.req))
        => (prev.tag = cur.tag /\ prev.called = cur.called)

(* Two requests that differ in method, path, headers and body and agree    *)
(* on the content-type went the same way.                                  *)
C2_Witness ==
    /\ cur.st # "free"
    /\ prev # NoDispatch
    /\ ContentTypeBytes(prev.req) = ContentTypeBytes(cur.req)
    /\ prev.req.method # cur.req.method
    /\ prev.req.uri # cur.req.uri
    /\ prev.req.headers # cur.req.headers
    /\ prev.req.body # cur.req.body
    /\ prev.tag = cur.tag

(***************************************************************************)
(* Readiness                                                               *)
(***************************************************************************)

(* What the Dispatcher returns for a handler's answer it passes on. *)
PassedOn(answer) ==
    IF IsReadyErr(answer) THEN <<"Ready", <<"Err", <<"Box", answer[2][2]>>>>>>
    ELSE answer

(* C3: a readiness check polls the web handler first; if the web handler   *)
(* answers anything but ready, the check returns the web handler's status  *)
(* and does not poll the gRPC handler.                                     *)
C3_WebPolledFirstShortCircuit ==
    check.polled # <<>> =>
        /\ check.polled[1][1] = "web"
        /\ ~IsReadyOk(check.polled[1][2]) =>
               /\ Len(check.polled) = 1
               /\ check.result = PassedOn(check.polled[1][2])

(* A check in which the web handler failed: one poll, the error returned. *)
C3_Witness ==
    /\ Len(check.polled) = 1
    /\ check.polled[1] = <<"web", Ready(Err(<<"WebError", 1>>))>>
    /\ check.result = Ready(Err(<<"Box", <<"WebError", 1>>>>))
    /\ grpcSt = "ready"

(* C4: when the web handler answers ready, the check returns the gRPC      *)
(* handler's status of that check; the Dispatcher reports ready if and     *)
(* only if both handlers answered ready in that check.                     *)
C4_ReadyIffBothReady ==
    check.polled # <<>> =>
        /\ IsReadyOk(check.polled[1][2]) =>
               /\ Len(check.polled) = 2
               /\ check.polled[2][1] = "grpc"
               /\ check.result = PassedOn(check.polled[2][2])
        /\ IsReadyOk(check.result) <=>
               /\ Len(check.polled) = 2
               /\ \E i, j \in 1..2 :
                      /\ check.polled[i] = <<"web", Ready(Ok(Unit))>>
                      /\ check.polled[j] = <<"grpc", Ready(Ok(Unit))>>

(* The web handler ready, the gRPC handler pending: the check is pending. *)
C4_Witness ==
    /\ Len(check.polled) = 2
    /\ check.polled[1] = <<"web", Ready(Ok(Unit))>>
    /\ check.polled[2] = <<"grpc", Pending>>
    /\ check.result = Pending

(* C5: the transport calling only after a check returned ready, every call *)
(* is issued with both handlers ready, and none after a check that         *)
(* returned pending or an error.                                           *)
C5_NoCallWhileNotReady ==
    cur.st # "free" =>
        /\ cur.readyAtCall = <<"ready", "ready">>
        /\ IsReadyOk(cur.checkAtCall)

(* A second call of the connection, routed to the gRPC handler; the web    *)
(* handler's readiness is left unconsumed.                                 *)
C5_Witness ==
    /\ prev # NoDispatch
    /\ cur.st = "inflight"
    /\ cur.polls = 0
    /\ cur.readyAtCall = <<"ready", "ready">>
    /\ webSt = "ready" /\ grpcSt = "notready"

(***************************************************************************)
(* HybridFuture                                                            *)
(***************************************************************************)
BranchHandler(tag) == IF tag = "Right" THEN "grpc" ELSE "web"
BranchVariant(tag) == IF tag = "Right" THEN "HybridBody::Grpc" ELSE "HybridBody::Web"

(* C6, as claimed: a HybridFuture resolves exactly once; no poll after     *)
(* its resolution polls the completed branch's future into a second        *)
(* result.                                                                 *)
C6_ResolvedIsFinal == cur.readies <= 1

(* C6, amended: a HybridFuture yields its first result on the poll in      *)
(* which its branch's future first completes and never changes branch; it  *)
(* keeps no Resolved state, so a poll after resolution polls the same      *)
(* branch's future again and returns what that future answers: its panic,  *)
(* its Pending, or a further result.                                       *)
C6_RepollForwardsToSameBranch ==
    /\ cur.repolls = 0 => cur.readies = (IF cur.st = "done" THEN 1 ELSE 0)
    /\ cur.repolls > 0 =>
           /\ cur.tag = (IF HasContentType(cur.req, GrpcContentType)
                         THEN "Right" ELSE "Left")
           /\ cur.polled = <<BranchHandler(cur.tag)>>
           /\ cur.first # NoPoll
           /\ cur.readies >= 1 + (IF IsReady(cur.answer) THEN 1 ELSE 0)
           /\ cur.readies <= 1 + cur.repolls
           /\ cur.answer = Panic => cur.out = Panic /\ cur.st = "panicked"
           /\ cur.answer = Pending => cur.out = Pending
           /\ IsReadyErr(cur.answer) => cur.out = PassedOn(cur.answer)
           /\ IsReadyOk(cur.answer) =>
                  /\ IsReadyOk(cur.out)
                  /\ cur.out[2][2].body =
                         <<BranchVariant(cur.tag), cur.answer[2][2].body>>

(* A HybridFuture polled after it resolved yielded a second result. *)
C6_Witness ==
    /\ cur.repolls = 1
    /\ cur.readies = 2
    /\ IsReadyOk(cur.first)
    /\ IsReadyOk(cur.out)
    /\ cur.out # cur.first

(* C7: when the future of a HybridFuture's branch succeeds, the result is  *)
(* the same response (status and headers unchanged) with its body wrapped  *)
(* in the variant of that branch: Left in HybridBody::Web, Right in        *)
(* HybridBody::Grpc.                                                       *)
C7_BodyWrappedEnvelopeKept ==
    (cur.st = "done" /\ IsReadyOk(cur.answer)) =>
        /\ IsReadyOk(cur.out)
        /\ DOMAIN cur.out[2][2] = {"status", "headers", "body"}
        /\ cur.out[2][2].status = cur.answer[2][2].status
        /\ cur.out[2][2].headers = cur.answer[2][2].headers
        /\ cur.tag = "Left" =>
               cur.out[2][2].body = <<"HybridBody::Web", cur.answer[2][2].body>>
        /\ cur.tag = "Right" =>
               cur.out[2][2].body = <<"HybridBody::Grpc", cur.answer[2][2].body>>

(* A Right future resolved with the gRPC handler's response. *)
C7_Witness ==
    /\ cur.st = "done"
    /\ cur.tag = "Right"
    /\ IsReadyOk(cur.answer)
    /\ cur.out[2][2].status = 200
    /\ cur.out[2][2].headers = <<Header("content-type", GrpcContentType)>>
    /\ cur.out[2][2].body = <<"HybridBody::Grpc", <<"GrpcBody", 1>>>>

(* C8: the body of a resolved response is HybridBody::Grpc if and only if  *)
(* its request's content-type was exactly application/grpc, and            *)
(* HybridBody::Web otherwise.                                              *)
C8_BodyVariantMatchesRouting ==
    (cur.st = "done" /\ IsReadyOk(cur.out)) =>
        LET variant == cur.out[2][2].body[1]
        IN  /\ variant \in {"HybridBody::Web", "HybridBody::Grpc"}
            /\ variant = "HybridBody::Grpc" <=>
                   HasContentType(cur.req, GrpcContentType)

(* An Application/Grpc request resolved with a HybridBody::Web body, after *)
(* an application/grpc request.                                            *)
C8_Witness ==
    /\ cur.st = "done"
    /\ IsReadyOk(cur.out)
    /\ HasContentType(cur.req, GrpcCapitalized)
    /\ cur.out[2][2].body[1] = "HybridBody::Web"
    /\ HasContentType(prev.req, GrpcContentType)

(* C9: when the future of a HybridFuture's branch fails, the HybridFuture  *)
(* completes on that poll with that error boxed; each request is handed    *)
(* to one handler once and a failed request is not dispatched again.       *)
C9_FailureSurfacedNoRetry ==
    /\ cur.st # "free" =>
           /\ Len(cur.called) = 1
           /\ cur.called[1] = BranchHandler(cur.tag)
    /\ IsReadyErr(cur.answer) =>
           /\ cur.st = "done"
           /\ cur.readies = 1
           /\ cur.out = <<"Ready", <<"Err", <<"Box", cur.answer[2][2]>>>>>>

(* The gRPC handler's future failed on its second poll. *)
C9_Witness ==
    /\ cur.st = "done"
    /\ cur.tag = "Right"
    /\ cur.polls = 2
    /\ cur.answer = Ready(Err(<<"GrpcError", 1>>))
    /\ cur.out = Ready(Err(<<"Box", <<"GrpcError", 1>>>>))
    /\ cur.called = <<"grpc">>

(***************************************************************************)
(* HybridBody                                                              *)
(***************************************************************************)

(* An answer of the HybridBody against the wrapped body's: the same, an    *)
(* error being the same error under the HybridBody's variant.              *)
SameAnswer(op, t, d) ==
    IF op = "is_end_stream" THEN t = d
    ELSE IF op = "poll_data" /\ Len(d) = 2 /\ d[2] # None /\ d[2][1][1] = "Err"
    THEN /\ t[1] = "Ready" /\ t[2] # None /\ t[2][1][1] = "Err"
         /\ t[2][1][2][2] = d[2][1][2]
         /\ t[2][1][2][1] = (IF hb[1] = "HybridBody::Web"
                             THEN "HybridError::Web" ELSE "HybridError::Grpc")
    ELSE IF op = "poll_trailers" /\ IsReadyErr(d)
    THEN /\ IsReadyErr(t)
         /\ t[2][2][2] = d[2][2]
         /\ t[2][2][1] = (IF hb[1] = "HybridBody::Web"
                          THEN "HybridError::Web" ELSE "HybridError::Grpc")
    ELSE t = d

(* C10: the answers of poll_data, poll_trailers and is_end_stream given    *)
(* through a HybridBody are those the wrapped body gives to the same       *)
(* operations applied to it directly, and the HybridBody holds nothing but *)
(* its variant and the wrapped body.                                       *)
C10_BodyForwardingTransparent ==
    /\ Len(through) = Len(directly)
    /\ \A i \in 1..Len(through) :
           /\ through[i][1] = directly[i][1]
           /\ SameAnswer(through[i][1], through[i][2], directly[i][2])
    /\ hb[2] = direct
    /\ Len(hb) = 2

(* A HybridBody::Grpc streamed to its end: a chunk, the end of the data,   *)
(* the trailers, the end of the stream.                                    *)
C10_Witness ==
    /\ hb[1] = "HybridBody::Grpc"
    /\ Len(through) = 4
    /\ through[1] = <<"poll_data", Ready(Some(Ok(Chunk)))>>
    /\ through[2] = <<"poll_data", Ready(None)>>
    /\ through[3] = <<"poll_trailers", Ready(Ok(Some(TrailerMap)))>>
    /\ through[4][1] = "is_end_stream"
    /\ through[4][2] = TRUE

(* C11: when a read of chunks or of trailers fails in the wrapped body     *)
(* with error E, the HybridBody's read fails with exactly E under the      *)
(* HybridError variant of the body's variant, and that HybridError prints  *)
(* with {} and with {:?} as E itself does.                                 *)
C11_BodyErrorWrappedAndRenderedAsInner ==
    /\ \A i \in 1..Len(directly) :
           ErrorIn(directly[i][1], directly[i][2]) # None =>
               /\ i <= Len(through)
               /\ ErrorIn(through[i][1], through[i][2]) =
                      <<  <<IF hb[1] = "HybridBody::Web" THEN "HybridError::Web"
                            ELSE "HybridError::Grpc",
                            ErrorIn(directly[i][1], directly[i][2])[1]>>  >>
    /\ rendered.union = rendered.inner
    /\ \A i \in 1..Len(directly) :
           (/\ ErrorIn(directly[i][1], directly[i][2]) # None
            /\ \A j \in (i + 1)..Len(directly) :
                   ErrorIn(directly[j][1], directly[j][2]) = None)
           => LET e == ErrorIn(directly[i][1], directly[i][2])[1]
              IN  rendered.union = << <<"body error", e[2]>>,
                                      <<"BodyError", "(", e[2], ")">> >>

(* A HybridBody::Grpc whose chunk read failed and whose trailers then     *)
(* failed with another error.                                              *)
C11_Witness ==
    /\ hb[1] = "HybridBody::Grpc"
    /\ Len(through) = 2
    /\ through[1] = <<"poll_data",
                      Ready(Some(Err(<<"HybridError::Grpc", <<"BodyError", 1>>>>)))>>
    /\ through[2] = <<"poll_trailers",
                      Ready(Err(<<"HybridError::Grpc", <<"BodyError", 2>>>>))>>
    /\ rendered.union = << <<"body error", 2>>, <<"BodyError", "(", 2, ")">> >>

(***************************************************************************)
(* Polling and calling                                                     *)
(***************************************************************************)
(* C16: every poll of a HybridFuture that is still pending polls the       *)
(* future of its branch once and no other, keeps the branch and the        *)
(* request, makes no handler call and changes no handler's readiness, and  *)
(* answers Pending, leaving the HybridFuture to be polled again, when that *)
(* future answers Pending.                                                 *)
C16_PendingPollsForwardOnce ==
    [][(cur.st = "inflight" /\ cur'.polls = cur.polls + 1) =>
          /\ cur'.polled = <<BranchHandler(cur.tag)>>
          /\ cur'.tag = cur.tag
          /\ cur'.req = cur.req
          /\ cur'.inner.handler = cur.inner.handler
          /\ cur'.inner.req = cur.inner.req
          /\ cur'.called = cur.called
          /\ Len(cur'.called) = 1
          /\ <<webSt', grpcSt', check', svcReady'>> = <<webSt, grpcSt, check, svcReady>>
          /\ cur'.answer = Pending =>
                 /\ cur'.out = Pending
                 /\ cur'.st = "inflight"
                 /\ cur'.readies = 0
                 /\ ~cur'.inner.done
          /\ cur'.out = Pending => cur'.answer = Pending]_vars

(* A Right HybridFuture polled twice, pending both times. *)
C16_Witness ==
    /\ cur.st = "inflight"
    /\ cur.tag = "Right"
    /\ cur.polls = 2
    /\ cur.answer = Pending
    /\ cur.out = Pending
    /\ cur.called = <<"grpc">>

(* C17: HybridService::call calls the chosen handler once with the         *)
(* request and does nothing else: the other handler is not called, no      *)
(* handler and no future is polled, the other handler's readiness, the     *)
(* last readiness check and the connection are as before, and the          *)
(* HybridFuture returned has not been polled.                              *)
C17_CallOnlyDelegates ==
    [][(cur.st \in {"free", "done"} /\ cur'.st = "inflight") =>
          /\ cur'.called = <<BranchHandler(cur'.tag)>>
          /\ cur'.inner = [handler |-> BranchHandler(cur'.tag), req |-> cur'.req,
                           done |-> FALSE]
          /\ cur'.called = <<"web">> => grpcSt' = grpcSt
          /\ cur'.called = <<"grpc">> => webSt' = webSt
          /\ cur'.polled = <<>>
          /\ cur'.polls = 0
          /\ cur'.answer = NoPoll
          /\ cur'.out = NoPoll
          /\ check' = check
          /\ conn' = conn
          /\ UNCHANGED <<bodyVars, rendered, acceptVars, checks>>]_vars

(* A web request just handed over: its HybridFuture not yet polled, the    *)
(* gRPC handler still as ready as the last check left it.                  *)
C17_Witness ==
    /\ cur.st = "inflight"
    /\ cur.polls = 0
    /\ cur.called = <<"web">>
    /\ cur.polled = <<>>
    /\ ~cur.inner.done
    /\ cur.readyAtCall = <<"ready", "ready">>
    /\ grpcSt = "ready"
    /\ webSt = "notready"

(* C20: a HybridService keeps nothing of a readiness check for the next:   *)
(* every check polls the web handler once, also when the check before      *)
(* found it ready and the gRPC handler not, and the gRPC handler at most   *)
(* once; the result of a check is decided by the answers given in that     *)
(* check alone.                                                            *)
C20_NoReadinessKeptBetweenChecks ==
    /\ checks.web = checks.n
    /\ checks.grpc <= checks.n
    /\ checks.n > 0 =>
           /\ Len(check.polled) \in {1, 2}
           /\ check.polled[1][1] = "web"
           /\ IF IsReadyOk(check.polled[1][2])
              THEN /\ Len(check.polled) = 2
                   /\ check.polled[2][1] = "grpc"
                   /\ check.result = PassedOn(check.polled[2][2])
              ELSE /\ Len(check.polled) = 1
                   /\ check.result = PassedOn(check.polled[1][2])

(* Three checks: the web handler ready and the gRPC handler pending in the *)
(* second, the web handler polled again and pending in the third.          *)
C20_Witness ==
    /\ checks.n = 3
    /\ checks.web = 3
    /\ checks.grpc = 1
    /\ checks.before.polled = << <<"web", Ready(Ok(Unit))>>, <<"grpc", Pending>> >>
    /\ checks.before.result = Pending
    /\ check.polled = << <<"web", Pending>> >>
    /\ check.result = Pending

(***************************************************************************)
(* The acceptor                                                            *)
(***************************************************************************)
(* The handle a HybridService built from the acceptor holds. *)
DuplicatedHandle == [handler |-> 1, cloned |-> TRUE]

(* C12: HybridMakeService::poll_ready answers what the web-handler         *)
(* factory's poll_ready answered (ready, not ready or the factory's error, *)
(* unchanged), polls the factory alone and never the gRPC handler.         *)
C12_AcceptorReadinessIsFactoryReadiness ==
    acceptor.answer # NoPoll =>
        /\ acceptor.check.result = acceptor.answer
        /\ acceptor.check.polled = << <<"make_web", acceptor.answer>> >>
        /\ \A i \in 1..Len(acceptor.check.polled) :
               acceptor.check.polled[i][1] # "grpc"
        /\ (IsReadyOk(acceptor.check.result) <=> acceptor.answer = Ready(Ok(Unit)))
        /\ (acceptor.check.result = Pending <=> acceptor.answer = Pending)

(* The factory failed its readiness check with the second error. *)
C12_Witness ==
    /\ acceptor.answer = Ready(Err(<<"MakeError", 2>>))
    /\ acceptor.check.result = Ready(Err(<<"MakeError", 2>>))
    /\ acceptor.ms.make_web.st = "failed"

(* C13: a build ends in one of two ways.  When the factory's future        *)
(* answers Ok(W) the HybridMakeServiceFuture answers a HybridService       *)
(* holding W and the duplicated gRPC handle; when it answers Err(E) the    *)
(* HybridMakeServiceFuture answers Err(E), E unchanged, and no             *)
(* HybridService exists for the connection.                                *)
C13_BuildEndsInDispatcherOrFactoryError ==
    \A c \in Conns :
        LET k == conns[c]
        IN  /\ k.st \in {"none", "building", "built", "failed", "panicked"}
            /\ k.st = "building" =>
                   k.out \in {NoPoll, Pending} /\ k.built = 0 /\ k.svc = NoService
            /\ k.st = "built" =>
                   /\ k.answer = Ready(Ok(WebInstance(c)))
                   /\ k.out = Ready(Ok(HybridService(WebInstance(c), DuplicatedHandle)))
                   /\ k.svc = HybridService(WebInstance(c), DuplicatedHandle)
                   /\ k.built = 1
            /\ k.st = "failed" =>
                   /\ IsReadyErr(k.answer)
                   /\ k.out = k.answer
                   /\ k.out[2][2] \in MakeErrors
                   /\ k.built = 0
                   /\ k.svc = NoService
            /\ (k.polls > 0 /\ IsReadyOk(k.answer)) => k.st = "built"
            /\ (k.polls > 0 /\ IsReadyErr(k.answer)) => k.st = "failed"

(* One build ended in a HybridService after a pending poll, the other in   *)
(* the factory's second error.                                             *)
C13_Witness ==
    /\ conns[1].st = "built" /\ conns[1].polls = 2
    /\ conns[1].svc = HybridService(<<"Web", 1>>, DuplicatedHandle)
    /\ conns[2].st = "failed"
    /\ conns[2].out = Ready(Err(<<"MakeError", 2>>))

(* C14, as claimed: for every connection whose build has ended, the       *)
(* factory was called exactly once and exactly one HybridService was       *)
(* constructed.                                                            *)
C14_ExactlyOneDispatcherPerConnection ==
    \A c \in Conns :
        conns[c].st \in {"built", "failed"} =>
            /\ conns[c].made = <<c>>
            /\ conns[c].built = 1

(* C14, amended: for every connection the acceptor was called for, the     *)
(* factory was called exactly once, with that connection; at most one      *)
(* HybridService was constructed, exactly one when the build succeeded and *)
(* none when it failed; its gRPC handle is a clone of the acceptor's       *)
(* handler, which is the one constructed at start; and no HybridService    *)
(* serves two connections.                                                 *)
C14_OneWebInstanceOneDispatcherPerConnection ==
    /\ acceptor.ms.grpc = GrpcService
    /\ \A c \in Conns :
        LET k == conns[c]
        IN  /\ k.st # "none" => k.made = <<c>>
            /\ k.st = "none" => k.made = <<>>
            /\ k.built <= 1
            /\ k.st = "failed" => k.built = 0 /\ k.svc = NoService
            /\ k.st = "built" =>
                   /\ k.built = 1
                   /\ k.svc.web = WebInstance(c)
                   /\ k.svc.grpc.handler = acceptor.ms.grpc.handler
                   /\ k.svc.grpc.cloned
            /\ k.last # NoDelivery =>
                   k.last.target \in {k.svc.web, <<"Grpc", k.svc.grpc.handler>>}
    /\ \A c, d \in Conns :
           (c # d /\ conns[c].st = "built" /\ conns[d].st = "built") =>
               conns[c].svc # conns[d].svc

(* Both connections built, each with its own HybridService. *)
C14_Witness ==
    /\ conns[1].st = "built" /\ conns[2].st = "built"
    /\ conns[1].svc.web = <<"Web", 1>> /\ conns[2].svc.web = <<"Web", 2>>
    /\ conns[1].svc.grpc = conns[2].svc.grpc
    /\ conns[2].last.req = GrpcPost

(* C15: the poll on which a connection's build fails changes nothing of    *)
(* the acceptor (factory, gRPC handler) and nothing of any other           *)
(* connection, whatever the others are doing: what they can do next and    *)
(* with what result is as before.                                          *)
C15_BuildFailureConfined ==
    [][\A c \in Conns :
          (conns[c].st = "building" /\ conns'[c].st = "failed") =>
              /\ acceptor' = acceptor
              /\ \A d \in Conns \ {c} : conns'[d] = conns[d]]_vars

(* The build of connection 1 failed; connection 2 is served. *)
C15_Witness ==
    /\ conns[1].st = "failed"
    /\ conns[2].st = "built"
    /\ conns[2].last.req = WebGet
    /\ conns[2].last.target = <<"Web", 2>>
    /\ acceptor.ms.grpc = GrpcService

(* C18: a web request of a connection goes to the web handler built for    *)
(* that connection, a gRPC request to the one shared gRPC handler; the web *)
(* handlers of two connections differ and their gRPC handles name the same *)
(* handler; every HybridFuture and every HybridBody is held by the task of *)
(* the connection whose HybridService made it and by no other connection.  *)
C18_OnlyGrpcHandlerShared ==
    /\ \A c \in Conns :
        LET k == conns[c]
        IN  /\ \A f \in BagToSet(k.pending) :
                   /\ k.st = "built"
                   /\ f.of = k.svc
                   /\ f.of.web = WebInstance(c)
                   /\ f.inner.req \in ConnRequests
                   /\ f.tag = (IF IsGrpcRequest(f.inner.req) THEN "Right" ELSE "Left")
                   /\ f.inner.handler = BranchHandler(f.tag)
                   /\ \A d \in Conns \ {c} :
                          /\ \A g \in BagToSet(conns[d].pending) : g.of # f.of
                          /\ \A b \in BagToSet(conns[d].bodies) : b.of # f.of
            /\ \A b \in BagToSet(k.bodies) :
                   /\ k.st = "built"
                   /\ b.of = k.svc
                   /\ b.of.web = WebInstance(c)
                   /\ \E h \in {"web", "grpc"} :
                          /\ b.body[1] = (IF h = "grpc" THEN "HybridBody::Grpc"
                                          ELSE "HybridBody::Web")
                          /\ b.body[2] \in { r.body : r \in HandlerResponses(h) }
                   /\ \A d \in Conns \ {c} :
                          \A b2 \in BagToSet(conns[d].bodies) : b2.of # b.of
            /\ (k.pending # EmptyBag \/ k.bodies # EmptyBag) => k.last # NoDelivery
    /\ \A c \in Conns :
        LET k == conns[c]
        IN  k.last # NoDelivery =>
                /\ k.st = "built"
                /\ (~IsGrpcRequest(k.last.req)) =>
                       /\ k.last.tag = "Left"
                       /\ k.last.target = WebInstance(c)
                       /\ \A d \in Conns \ {c} : k.last.target # conns[d].svc.web
                /\ IsGrpcRequest(k.last.req) =>
                       /\ k.last.tag = "Right"
                       /\ k.last.target = <<"Grpc", acceptor.ms.grpc.handler>>
    /\ \A c, d \in Conns :
           (c # d /\ conns[c].st = "built" /\ conns[d].st = "built") =>
               /\ conns[c].svc.web # conns[d].svc.web
               /\ conns[c].svc.grpc.handler = conns[d].svc.grpc.handler

(* Both connections have had a web request delivered: the first holds the  *)
(* HybridFuture of its request, not yet complete, the second the           *)
(* HybridBody of its response; the two were answered by the same kind of   *)
(* handler and differ only in the HybridService they come from.            *)
C18_Witness ==
    /\ conns[1].last.req = WebGet /\ conns[1].last.target = <<"Web", 1>>
    /\ conns[2].last.req = WebGet /\ conns[2].last.target = <<"Web", 2>>
    /\ BagCardinality(conns[1].pending) = 1
    /\ \A f \in BagToSet(conns[1].pending) :
           f.tag = "Left" /\ f.of.web = <<"Web", 1>>
    /\ conns[1].bodies = EmptyBag
    /\ conns[2].pending = EmptyBag
    /\ conns[2].bodies =
           SetToBag({[body |-> <<"HybridBody::Web", <<"WebBody", 1>>>>,
                      of |-> [web |-> <<"Web", 2>>,
                              grpc |-> [handler |-> 1, cloned |-> TRUE]]]})

(* C19: the grpc field of a HybridMakeServiceFuture holds the cloned       *)
(* handle until the first poll that answers a HybridService and is None    *)
(* from then on; polls answering Pending or the factory's error leave it   *)
(* as it was; the poll panics with `Cannot poll twice!` exactly when       *)
(* web_future answers Ok while the field is None, which takes a poll after *)
(* the one that answered a HybridService.                                  *)
C19_HandleTakenOnFirstSuccessOnly ==
    \A c \in Conns :
        LET k == conns[c]
        IN  k.st # "none" =>
                /\ k.built <= 1
                /\ (k.built = 0 <=> k.fut.grpc = Some(DuplicatedHandle))
                /\ (k.built = 1 <=> k.fut.grpc = None)
                /\ (k.polls + k.repolls > 0) =>
                       /\ (k.out = CannotPollTwice
                              <=> (IsReadyOk(k.answer) /\ k.before = None))
                       /\ (~IsReadyOk(k.answer)) => k.fut.grpc = k.before
                       /\ k.out = CannotPollTwice => (k.repolls >= 1 /\ k.built = 1)
                /\ k.repolls = 0 => k.out # CannotPollTwice

(* The future answered a HybridService and, polled again with web_future   *)
(* answering Ok once more, panicked.                                       *)
C19_Witness ==
    /\ conns[1].st = "panicked"
    /\ conns[1].out = CannotPollTwice
    /\ conns[1].answer = Ready(Ok(<<"Web", 1>>))
    /\ conns[1].repolls = 1

=============================================================================
